---------------------------- MODULE Spec2Model ----------------------------
(* A model of the beevee crate of Ambroisie/pathtracer: the AABB algebra    *)
(* (aabb/bounding_box.rs), the ray/box slab test (ray.rs), the construction *)
(* of the BVH (bvh/tree.rs) and the nearest-hit traversal `walk`.           *)
(*                                                                          *)
(* f32 values are modelled by integers: every finite value the model uses   *)
(* is a small integer (exactly representable in f32), INFINITY and          *)
(* NEG_INFINITY are two sentinels beyond every finite value, and NAN is a   *)
(* third one handled by every operation the way IEEE-754 does. NEG_ZERO is  *)
(* -0.0: equal to 0 in every comparison and sum, told from it by 1. / d.    *)
EXTENDS Integers, Sequences, FiniteSets, TLC

(***************************************************************************)
(* Bounds of the model                                                     *)
(***************************************************************************)
\* longest slice of objects handed to the construction
MaxObjects == 3
\* largest max_cap handed to with_max_capacity (0 included)
MaxCap == 3
\* number of threads of the renderer that call walk concurrently
NumThreads == 2

(***************************************************************************)
(* f32                                                                     *)
(***************************************************************************)
INFINITY == 1000000
NEG_INFINITY == 0 - INFINITY
NAN == INFINITY + 1
\* -0.0, the zero a negation or a product of opposite signs leaves
NEG_ZERO == NAN + 1

\* the value of a in a comparison, a sum or a product: -0.0 counts as 0. The
\* sign of a zero is kept where the code can see it, in the direction handed to
\* Ray::new; the zero an operation computes is written 0.
Num(a) == IF a = NEG_ZERO THEN 0 ELSE a

IsFinite(a) == Num(a) /= NAN /\ Num(a) /= INFINITY /\ Num(a) /= NEG_INFINITY

\* the comparisons of f32 (PartialOrd, PartialEq): false as soon as one side is NaN
Flt(a, b) == a /= NAN /\ b /= NAN /\ Num(a) < Num(b)
Fle(a, b) == a /= NAN /\ b /= NAN /\ Num(a) <= Num(b)
Fgt(a, b) == a /= NAN /\ b /= NAN /\ Num(a) > Num(b)
Fge(a, b) == a /= NAN /\ b /= NAN /\ Num(a) >= Num(b)
Feq(a, b) == a /= NAN /\ b /= NAN /\ Num(a) = Num(b)

\* f32::min and f32::max: the other operand when one is NaN
Fmin(a, b) == IF a = NAN THEN b ELSE IF b = NAN THEN a ELSE IF Num(a) < Num(b) THEN a ELSE b
Fmax(a, b) == IF a = NAN THEN b ELSE IF b = NAN THEN a ELSE IF Num(a) > Num(b) THEN a ELSE b

Fneg(a) == IF a = NAN THEN NAN ELSE 0 - Num(a)

Fadd(a, b) ==
    IF a = NAN \/ b = NAN THEN NAN
    ELSE IF IsFinite(a) /\ IsFinite(b) THEN Num(a) + Num(b)
    ELSE IF IsFinite(a) THEN b
    ELSE IF IsFinite(b) THEN a
    ELSE IF a = b THEN a
    ELSE NAN

Fsub(a, b) == Fadd(a, Fneg(b))

Sign(a) == IF Num(a) > 0 THEN 1 ELSE IF Num(a) < 0 THEN 0 - 1 ELSE 0

Fmul(a, b) ==
    IF a = NAN \/ b = NAN THEN NAN
    ELSE IF IsFinite(a) /\ IsFinite(b) THEN Num(a) * Num(b)
    ELSE IF Num(a) = 0 \/ Num(b) = 0 THEN NAN
    ELSE IF Sign(a) * Sign(b) > 0 THEN INFINITY
    ELSE NEG_INFINITY

(***************************************************************************)
(* Axis, Point                                                             *)
(***************************************************************************)
X == 0
Y == 1
Z == 2
Axes == <<X, Y, Z>>

\* Index<Axis>: a point is the tuple of its three coordinates
Coord(p, axis) == p[axis + 1]

PointSub(p, q) == <<Fsub(p[1], q[1]), Fsub(p[2], q[2]), Fsub(p[3], q[3])>>

PointEq(p, q) == Feq(p[1], q[1]) /\ Feq(p[2], q[2]) /\ Feq(p[3], q[3])

(***************************************************************************)
(* AABB                                                                    *)
(***************************************************************************)
AABB_empty ==
    [low  |-> <<INFINITY, INFINITY, INFINITY>>,
     high |-> <<NEG_INFINITY, NEG_INFINITY, NEG_INFINITY>>]

\* a constructor that puts the corners in order instead of keeping them as given
with_bounds_swapping(low, high) ==
    [low  |-> <<Fmin(low[1], high[1]), Fmin(low[2], high[2]), Fmin(low[3], high[3])>>,
     high |-> <<Fmax(low[1], high[1]), Fmax(low[2], high[2]), Fmax(low[3], high[3])>>]

\* the box with_bounds builds when it returns: the corners as given
with_bounds(low, high) == [low |-> low, high |-> high]

\* debug_assert!(cond): a panic when the build has debug assertions on and cond
\* is false, nothing in a build that has them off
debug_assert_fails(cond, debug_assertions) == debug_assertions /\ ~cond

\* a call of AABB::with_bounds: the panic of one of its three assertions, or
\* the box
with_bounds_call(low, high, debug_assertions) ==
    IF \/ debug_assert_fails(Fle(low[1], high[1]), debug_assertions)
       \/ debug_assert_fails(Fle(low[2], high[2]), debug_assertions)
       \/ debug_assert_fails(Fle(low[3], high[3]), debug_assertions)
    THEN [panic |-> TRUE]
    ELSE [panic |-> FALSE, box |-> with_bounds(low, high)]

\* #[derive(PartialEq)]: both corners equal, coordinate by coordinate
AABB_eq(a, b) == PointEq(a.low, b.low) /\ PointEq(a.high, b.high)

grow_mut(self, point) ==
    [low  |-> <<Fmin(self.low[1], point[1]),
                Fmin(self.low[2], point[2]),
                Fmin(self.low[3], point[3])>>,
     high |-> <<Fmax(self.high[1], point[1]),
                Fmax(self.high[2], point[2]),
                Fmax(self.high[3], point[3])>>]

grow(self, point) == grow_mut(self, point)

\* a union that grows by the low corner of the other box only
union_mut_low_only(self, other) == grow_mut(self, other.low)

union_mut(self, other) == grow_mut(grow_mut(self, other.low), other.high)

union(self, other) == union_mut(self, other)

\* the box taken as open: a point on a face is left out
contains_open(self, point) ==
    /\ Flt(self.low[1], point[1]) /\ Flt(point[1], self.high[1])
    /\ Flt(self.low[2], point[2]) /\ Flt(point[2], self.high[2])
    /\ Flt(self.low[3], point[3]) /\ Flt(point[3], self.high[3])

contains(self, point) ==
    /\ Fle(self.low[1], point[1]) /\ Fle(point[1], self.high[1])
    /\ Fle(self.low[2], point[2]) /\ Fle(point[2], self.high[2])
    /\ Fle(self.low[3], point[3]) /\ Fle(point[3], self.high[3])

diagonal(self) == PointSub(self.high, self.low)

is_empty(self) ==
    \/ Fgt(self.low[1], self.high[1])
    \/ Fgt(self.low[2], self.high[2])
    \/ Fgt(self.low[3], self.high[3])

surface(self) ==
    LET d == diagonal(self)
    IN  Fmul(2, Fadd(Fadd(Fmul(d[1], d[2]), Fmul(d[1], d[3])), Fmul(d[2], d[3])))

\* the comparisons made strict: a tie falls through to the next axis
largest_axis_strict(self) ==
    LET d == diagonal(self)
    IN  IF Fgt(d[1], d[2]) /\ Fgt(d[1], d[3]) THEN X
        ELSE IF Fgt(d[2], d[3]) THEN Y
        ELSE Z

largest_axis(self) ==
    LET d == diagonal(self)
    IN  IF Fge(d[1], d[2]) /\ Fge(d[1], d[3]) THEN X
        ELSE IF Fge(d[2], d[3]) THEN Y
        ELSE Z

(***************************************************************************)
(* Quotients of f32 values, kept exact as fractions num/den with den >= 0. *)
(* den = 0 stands for +inf (num > 0), -inf (num < 0) and NaN (num = 0).    *)
(* The costs of the SAH are such quotients; the model does not round them. *)
(***************************************************************************)
FracNaN == [num |-> 0, den |-> 0]
FracInf == [num |-> 1, den |-> 0]
FracNegInf == [num |-> 0 - 1, den |-> 0]
FracOfInt(k) == [num |-> k, den |-> 1]

FracIsNaN(q) == q.den = 0 /\ q.num = 0

Abs(a) == IF a < 0 THEN 0 - a ELSE a

\* a / b in f32
Fdiv(a, b) ==
    IF a = NAN \/ b = NAN THEN FracNaN
    ELSE IF ~IsFinite(a) /\ ~IsFinite(b) THEN FracNaN
    ELSE IF ~IsFinite(a) THEN (IF Sign(a) * (IF b < 0 THEN 0 - 1 ELSE 1) > 0
                               THEN FracInf ELSE FracNegInf)
    ELSE IF ~IsFinite(b) THEN FracOfInt(0)
    ELSE IF b = 0 THEN [num |-> Sign(a), den |-> 0]
    ELSE [num |-> a * Sign(b), den |-> Abs(b)]

FracAdd(p, q) ==
    IF FracIsNaN(p) \/ FracIsNaN(q) THEN FracNaN
    ELSE IF p.den = 0 /\ q.den = 0 THEN (IF p.num = q.num THEN p ELSE FracNaN)
    ELSE IF p.den = 0 THEN p
    ELSE IF q.den = 0 THEN q
    ELSE [num |-> p.num * q.den + q.num * p.den, den |-> p.den * q.den]

FracLt(p, q) ==
    /\ ~FracIsNaN(p)
    /\ ~FracIsNaN(q)
    /\ IF p.den = 0 /\ q.den = 0 THEN p.num < q.num
       ELSE p.num * q.den < q.num * p.den

FracGe(p, q) ==
    /\ ~FracIsNaN(p)
    /\ ~FracIsNaN(q)
    /\ IF p.den = 0 /\ q.den = 0 THEN p.num >= q.num
       ELSE p.num * q.den >= q.num * p.den

(***************************************************************************)
(* Bounded objects. An object is a record: its identity, the box aabb()    *)
(* reports, the point centroid() reports and size, the size_of of its type *)
(* in bytes (the Sphere of the documentation: a Point and an f32).         *)
(***************************************************************************)
SIZE_OF_SPHERE == 16

Obj(id, low, high, c) ==
    [id |-> id, aabb |-> with_bounds(low, high), centroid |-> c, size |-> SIZE_OF_SPHERE]

Catalogue ==
    { Obj(1, <<0, 0, 0>>, <<2, 2, 2>>, <<1, 1, 1>>),
      Obj(2, <<4, 0, 0>>, <<6, 2, 2>>, <<5, 1, 1>>),
      Obj(3, <<0, 4, 0>>, <<2, 6, 2>>, <<1, 5, 1>>),
      Obj(4, <<3, 1, 1>>, <<3, 1, 1>>, <<3, 1, 1>>) }

\* objects whose centroid() reports a NaN coordinate
NaNCatalogue ==
    { Obj(5, <<0, 0, 4>>, <<2, 2, 6>>, <<NAN, 1, 5>>),
      Obj(6, <<4, 4, 0>>, <<6, 6, 2>>, <<5, 5, NAN>>) }

\* the slices a caller can hand over: every sequence of at most maxlen
\* objects of cat, no object twice
SlicesOf(cat, maxlen) ==
    UNION { { s \in [1..n -> cat] : \A i, j \in 1..n : i /= j => s[i].id /= s[j].id }
            : n \in 0..maxlen }

aabb(o) == o.aabb
centroid(o) == o.centroid

(***************************************************************************)
(* bvh/tree.rs: the construction                                           *)
(***************************************************************************)
RECURSIVE UnionFold(_, _, _, _)
\* the fold of union over objs[from..to] (1-based, inclusive), started from acc
UnionFold(objs, from, to, acc) ==
    IF from > to THEN acc
    ELSE UnionFold(objs, from + 1, to, union(acc, aabb(objs[from])))

bounds_from_slice(objects) == UnionFold(objects, 1, Len(objects), AABB_empty)

\* partial_cmp(..).expect(..): the comparator panics on a NaN coordinate, and a
\* sort or a selection of two objects or more compares every one of them
CmpPanics(objs, axis) ==
    /\ Len(objs) >= 2
    /\ \E i \in 1..Len(objs) : Coord(centroid(objs[i]), axis) = NAN

\* the place (1-based) a stable sort gives objs[i]: after the objects of a
\* smaller coordinate and the earlier ones of the same coordinate
SortedPlace(objs, i, axis) ==
    1 + Cardinality({ j \in 1..Len(objs) :
                        \/ Coord(centroid(objs[j]), axis) < Coord(centroid(objs[i]), axis)
                        \/ /\ Coord(centroid(objs[j]), axis) = Coord(centroid(objs[i]), axis)
                           /\ j < i })

\* a sort that writes the smallest object over the first one instead of
\* swapping the two
sort_by_overwriting(objs, axis) ==
    IF Len(objs) = 0 THEN objs
    ELSE <<objs[CHOOSE i \in 1..Len(objs) : SortedPlace(objs, i, axis) = 1]>>
             \o SubSeq(objs, 2, Len(objs))

\* slice::sort_by on the centroid coordinate along axis: a stable sort
sort_by(objs, axis) ==
    IF Len(objs) = 0 THEN <<>>
    ELSE [p \in 1..Len(objs) |->
             objs[CHOOSE i \in 1..Len(objs) : SortedPlace(objs, i, axis) = p]]

(***************************************************************************)
(* slice::sort_by when its comparator panics (line 229): the slice is left *)
(* as the sort had it at the first comparison that reads a NaN coordinate. *)
(* This is core::slice::sort::stable of the toolchain (Rust 1.95), for     *)
(* objects without interior mutability: an insertion sort up to 20         *)
(* objects, driftsort beyond. The outcome of a sort is a record of panic   *)
(* and v, the slice as it is left; a run of driftsort is a record of its   *)
(* length len and of sorted, whether it is sorted already.                 *)
(***************************************************************************)
MAX_LEN_ALWAYS_INSERTION_SORT == 20
SMALL_SORT_GENERAL_THRESHOLD == 32
MIN_SQRT_RUN_LEN == 64
MAX_FULL_ALLOC_BYTES == 8000000
STACK_BUF_BYTES == 4096
SMALL_SORT_GENERAL_SCRATCH_LEN == 48

Max(a, b) == IF a > b THEN a ELSE b

\* driftsort_main: the length of the scratch buffer for a slice of len objects
\* of size bytes each: room for the whole slice up to 8 MB, for the longer
\* half at least, and the 4 KiB buffer of the stack when that is no shorter
scratch_len(len, size) ==
    Max(STACK_BUF_BYTES \div size,
        Max(Max(len - len \div 2,
                IF len < MAX_FULL_ALLOC_BYTES \div size THEN len
                ELSE MAX_FULL_ALLOC_BYTES \div size),
            SMALL_SORT_GENERAL_SCRATCH_LEN))

\* no comparison among the objects of s panics
NoNaN(s, axis) == \A i \in 1..Len(s) : Coord(centroid(s[i]), axis) /= NAN

\* is_less(a, b): compare(a, b) == Less
is_less(a, b, axis) == Coord(centroid(a), axis) < Coord(centroid(b), axis)

Reverse(s) == [i \in 1..Len(s) |-> s[Len(s) + 1 - i]]

\* insertion_sort_shift_left(v, 1, is_less): the objects are inserted one by
\* one, from the second on, into the sorted run before them; the run holds no
\* NaN once it has two objects, so the panic is at the first comparison of the
\* insertion of the first NaN object (at), or of the second object when the
\* first one is the NaN. The run before the insertion is left sorted and the
\* rest as handed.
insertion_sort_panicked(objs, axis) ==
    LET at == CHOOSE i \in 1..Len(objs) :
                  ~NoNaN(<<objs[i]>>, axis) /\ NoNaN(SubSeq(objs, 1, i - 1), axis)
    IN  sort_by(SubSeq(objs, 1, at - 1), axis) \o SubSeq(objs, at, Len(objs))

\* small_sort_general_with_scratch: the two halves are sorted in the scratch
\* buffer and merged back into v, the scratch copied over v when the merge
\* panics. Every object of a half of two or more is compared while the half is
\* sorted, v untouched; a half of one object (v of 2 or 3) is first compared in
\* the merge.
small_sort(v, axis) ==
    IF Len(v) < 2 \/ NoNaN(v, axis) THEN [panic |-> FALSE, v |-> sort_by(v, axis)]
    ELSE IF Len(v) = 3 /\ NoNaN(SubSeq(v, 2, 3), axis)
    THEN [panic |-> TRUE, v |-> <<v[1]>> \o sort_by(SubSeq(v, 2, 3), axis)]
    ELSE [panic |-> TRUE, v |-> v]

\* stable quicksort: the small sort up to 32 objects; beyond, the choice of the
\* pivot and the partition read v only, and the partition compares every object
\* with the pivot before anything is written back
quicksort(v, axis) ==
    IF Len(v) <= SMALL_SORT_GENERAL_THRESHOLD THEN small_sort(v, axis)
    ELSE IF NoNaN(v, axis) THEN [panic |-> FALSE, v |-> sort_by(v, axis)]
    ELSE [panic |-> TRUE, v |-> v]

\* merge::merge of two sorted runs: an object not compared so far is a run of
\* its own, read by the first comparison of the merge
merge(v, axis) ==
    IF NoNaN(v, axis) THEN [panic |-> FALSE, v |-> sort_by(v, axis)]
    ELSE [panic |-> TRUE, v |-> v]

RECURSIVE scan_run(_, _, _, _)
\* the loops of find_existing_run from run_len on
scan_run(v, run_len, strictly_descending, axis) ==
    IF run_len >= Len(v)
    THEN [panic |-> FALSE, run_len |-> run_len, was_reversed |-> strictly_descending]
    ELSE IF ~NoNaN(SubSeq(v, run_len, run_len + 1), axis)
    THEN [panic |-> TRUE, run_len |-> run_len, was_reversed |-> strictly_descending]
    ELSE IF is_less(v[run_len + 1], v[run_len], axis) = strictly_descending
    THEN scan_run(v, run_len + 1, strictly_descending, axis)
    ELSE [panic |-> FALSE, run_len |-> run_len, was_reversed |-> strictly_descending]

find_existing_run(v, axis) ==
    IF Len(v) < 2 THEN [panic |-> FALSE, run_len |-> Len(v), was_reversed |-> FALSE]
    ELSE IF ~NoNaN(SubSeq(v, 1, 2), axis)
    THEN [panic |-> TRUE, run_len |-> 0, was_reversed |-> FALSE]
    ELSE scan_run(v, 2, is_less(v[2], v[1], axis), axis)

\* create_run without an existing run: the first 32 objects sorted at once
\* (eager), or a run left unsorted for later
new_run(v, min_good_run_len, eager_sort, axis) ==
    IF eager_sort
    THEN LET len   == IF Len(v) < SMALL_SORT_GENERAL_THRESHOLD THEN Len(v)
                      ELSE SMALL_SORT_GENERAL_THRESHOLD
             eager == quicksort(SubSeq(v, 1, len), axis)
         IN  [panic |-> eager.panic, v |-> eager.v \o SubSeq(v, len + 1, Len(v)),
              run |-> [len |-> len, sorted |-> TRUE]]
    ELSE [panic |-> FALSE, v |-> v,
          run |-> [len |-> IF Len(v) < min_good_run_len THEN Len(v)
                           ELSE min_good_run_len,
                   sorted |-> FALSE]]

\* create_run once find_existing_run has returned found
existing_run(v, min_good_run_len, eager_sort, axis, found) ==
    IF found.panic THEN [panic |-> TRUE, v |-> v, run |-> [len |-> 0, sorted |-> FALSE]]
    ELSE IF found.run_len >= min_good_run_len
    THEN [panic |-> FALSE,
          v |-> IF found.was_reversed
                THEN Reverse(SubSeq(v, 1, found.run_len))
                         \o SubSeq(v, found.run_len + 1, Len(v))
                ELSE v,
          run |-> [len |-> found.run_len, sorted |-> TRUE]]
    ELSE new_run(v, min_good_run_len, eager_sort, axis)

\* create_run on v, the slice from scan_idx on
create_run(v, min_good_run_len, eager_sort, axis) ==
    IF Len(v) >= min_good_run_len
    THEN existing_run(v, min_good_run_len, eager_sort, axis, find_existing_run(v, axis))
    ELSE new_run(v, min_good_run_len, eager_sort, axis)

\* a run sorted for a merge, if it is not sorted yet
sort_run(v, sorted, axis) ==
    IF sorted THEN [panic |-> FALSE, v |-> v] ELSE quicksort(v, axis)

\* the merge of logical_merge, left_v sorted and right the outcome of the sort
\* of the right run
merge_right(left_v, right, axis) ==
    IF right.panic
    THEN [panic |-> TRUE, v |-> left_v \o right.v,
          run |-> [len |-> Len(left_v \o right.v), sorted |-> FALSE]]
    ELSE LET merged == merge(left_v \o right.v, axis)
         IN  [panic |-> merged.panic, v |-> merged.v,
              run |-> [len |-> Len(merged.v), sorted |-> ~merged.panic]]

\* logical_merge once the left run is sorted, left the outcome of its sort
merge_left(left, right_v, right_sorted, axis) ==
    IF left.panic
    THEN [panic |-> TRUE, v |-> left.v \o right_v,
          run |-> [len |-> Len(left.v \o right_v), sorted |-> FALSE]]
    ELSE merge_right(left.v, sort_run(right_v, right_sorted, axis), axis)

\* logical_merge of the runs left and right, v the objects of both: two
\* unsorted runs that fit in the scratch buffer together are put together
\* unsorted, otherwise each is sorted, the left one first, and the two are
\* merged
logical_merge(v, scratch, left, right, axis) ==
    IF Len(v) <= scratch /\ ~left.sorted /\ ~right.sorted
    THEN [panic |-> FALSE, v |-> v, run |-> [len |-> Len(v), sorted |-> FALSE]]
    ELSE merge_left(sort_run(SubSeq(v, 1, left.len), left.sorted, axis),
                    SubSeq(v, left.len + 1, Len(v)), right.sorted, axis)

RECURSIVE FirstDigitApart(_, _, _, _)
\* the first binary digit, from d on, at which x / (2n) and y / (2n) differ
FirstDigitApart(x, y, n, d) ==
    IF (x * 2^d) \div (2 * n) /= (y * 2^d) \div (2 * n) THEN d
    ELSE FirstDigitApart(x, y, n, d + 1)

\* merge_tree_depth(left, mid, right, scale_factor) for a slice of n objects:
\* the leading zeros of (scale_factor * (left + mid)) ^ (scale_factor * (mid +
\* right)) on 64 bits, scale_factor = ceil(2^62 / n), are the binary digits
\* (left + mid) / (2n) and (mid + right) / (2n) have in common, the one apart
\* counted
merge_tree_depth(left, mid, right, n) ==
    IF left + mid = mid + right THEN 64
    ELSE FirstDigitApart(left + mid, mid + right, n, 1)

RECURSIVE ilog2(_)
ilog2(n) == IF n < 2 THEN 0 ELSE 1 + ilog2(n \div 2)

\* min_good_run_len of drift::sort: half the slice up to 64 objects, and
\* sqrt_approx(len) beyond 64 * 64 objects, one step of Newton's method from
\* 2^shift, shift = (1 + ilog2(len)) / 2
min_good_run_len(len) ==
    IF len <= MIN_SQRT_RUN_LEN * MIN_SQRT_RUN_LEN
    THEN (IF len - len \div 2 < MIN_SQRT_RUN_LEN THEN len - len \div 2
          ELSE MIN_SQRT_RUN_LEN)
    ELSE (2^((1 + ilog2(len)) \div 2) + len \div 2^((1 + ilog2(len)) \div 2)) \div 2

\* the slice with its objects from..to (0-based, to excluded) replaced by part
Replace(v, from, to, part) == SubSeq(v, 1, from) \o part \o SubSeq(v, to + 1, Len(v))

RECURSIVE collapse(_, _, _, _, _, _, _)
RECURSIVE collapse_merged(_, _, _, _, _, _, _, _)
\* the while loop of drift::sort: the runs on top of the stack merged with
\* prev_run as long as their depth is at least desired_depth; a stack entry is
\* a run with the depth of the merge node after it
collapse(v, scratch, axis, scan_idx, prev_run, stack, desired_depth) ==
    IF ~(Len(stack) > 1 /\ stack[Len(stack)].depth >= desired_depth)
    THEN [panic |-> FALSE, v |-> v, prev_run |-> prev_run, stack |-> stack]
    ELSE collapse_merged(v, scratch, axis, scan_idx, stack, desired_depth,
                         scan_idx - (stack[Len(stack)].run.len + prev_run.len),
                         logical_merge(SubSeq(v, scan_idx - (stack[Len(stack)].run.len
                                                             + prev_run.len) + 1, scan_idx),
                                       scratch, stack[Len(stack)].run, prev_run, axis))

collapse_merged(v, scratch, axis, scan_idx, stack, desired_depth, merge_start_idx, merged) ==
    IF merged.panic
    THEN [panic |-> TRUE, v |-> Replace(v, merge_start_idx, scan_idx, merged.v),
          prev_run |-> merged.run, stack |-> stack]
    ELSE collapse(Replace(v, merge_start_idx, scan_idx, merged.v), scratch, axis, scan_idx,
                  merged.run, SubSeq(stack, 1, Len(stack) - 1), desired_depth)

RECURSIVE drift_loop(_, _, _, _, _, _, _)
RECURSIVE drift_created(_, _, _, _, _, _, _, _)
RECURSIVE drift_collapsed(_, _, _, _, _, _, _, _)
\* the loop of drift::sort from scan_idx on
drift_loop(v, scratch, axis, eager_sort, scan_idx, prev_run, stack) ==
    IF scan_idx < Len(v)
    THEN drift_created(v, scratch, axis, eager_sort, scan_idx, prev_run, stack,
                       create_run(SubSeq(v, scan_idx + 1, Len(v)),
                                  min_good_run_len(Len(v)), eager_sort, axis))
    ELSE drift_collapsed(v, scratch, axis, eager_sort, scan_idx,
                         [len |-> 0, sorted |-> TRUE], 0,
                         collapse(v, scratch, axis, scan_idx, prev_run, stack, 0))

drift_created(v, scratch, axis, eager_sort, scan_idx, prev_run, stack, created) ==
    IF created.panic
    THEN [panic |-> TRUE, v |-> Replace(v, scan_idx, Len(v), created.v)]
    ELSE drift_collapsed(Replace(v, scan_idx, Len(v), created.v), scratch, axis,
                         eager_sort, scan_idx, created.run,
                         merge_tree_depth(scan_idx - prev_run.len, scan_idx,
                                          scan_idx + created.run.len, Len(v)),
                         collapse(Replace(v, scan_idx, Len(v), created.v), scratch, axis,
                                  scan_idx, prev_run, stack,
                                  merge_tree_depth(scan_idx - prev_run.len, scan_idx,
                                                   scan_idx + created.run.len, Len(v))))

drift_collapsed(v, scratch, axis, eager_sort, scan_idx, next_run, desired_depth, collapsed) ==
    IF collapsed.panic THEN [panic |-> TRUE, v |-> collapsed.v]
    ELSE IF scan_idx >= Len(v)
    THEN sort_run(collapsed.v, collapsed.prev_run.sorted, axis)
    ELSE drift_loop(collapsed.v, scratch, axis, eager_sort, scan_idx + next_run.len,
                    next_run,
                    Append(collapsed.stack,
                           [run |-> collapsed.prev_run, depth |-> desired_depth]))

\* driftsort_main on a slice of objects of size bytes each: eager up to 2 * 32
\* objects
driftsort(v, size, axis) ==
    drift_loop(v, scratch_len(Len(v), size), axis,
               Len(v) <= 2 * SMALL_SORT_GENERAL_THRESHOLD, 0,
               [len |-> 0, sorted |-> TRUE], <<>>)

\* the slice a sort_by leaves when its comparator panics
sort_by_panicked(objs, axis) ==
    IF Len(objs) <= MAX_LEN_ALWAYS_INSERTION_SORT
    THEN insertion_sort_panicked(objs, axis)
    ELSE driftsort(objs, objs[1].size, axis).v

\* left_surfaces after the loop of lines 236-242: entry k (0-based k - 1) is the
\* surface of the union of the first k objects, for k in 1..n-1
left_surfaces(objs) ==
    [k \in 1..(Len(objs) - 1) |-> surface(UnionFold(objs, 1, k, AABB_empty))]

\* right_surfaces: entry k (0-based k - 1) is the surface of the union of the
\* last k objects
right_surfaces(objs) ==
    [k \in 1..(Len(objs) - 1) |->
        surface(UnionFold(objs, Len(objs) - k + 1, Len(objs), AABB_empty))]

\* the 0-based indices line 250-251 read the two tables at
LeftSurfaceIndex(left_count) == left_count - 1
RightSurfaceIndex(right_count) == right_count

\* Vec indexing: in bounds or a panic
InBounds(vec, i0) == 0 <= i0 /\ i0 < Len(vec)

\* the cost of line 249-252
sah_cost(left_count, left_surface, right_count, right_surface, parent_surface, max_cap) ==
    FracAdd(Fdiv(1, max_cap),
            Fdiv(Fadd(Fmul(left_count, left_surface), Fmul(right_count, right_surface)),
                 parent_surface))

\* lines 254-258: the minimum kept so far replaced by a strictly smaller cost
keep_min(acc, cost, axis) ==
    IF FracLt(cost, acc.min)
    THEN [acc EXCEPT !.min = cost, !.dim = axis, !.mid = acc.left_count,
                     !.left_count = acc.left_count + 1]
    ELSE [acc EXCEPT !.left_count = acc.left_count + 1]

RECURSIVE CostLoop(_, _, _, _, _, _, _)
\* the loop of lines 246-259 from acc.left_count on; acc holds mid, dim, min,
\* and whether an index was out of bounds
CostLoop(n, ls, rs, parent_surface, max_cap, axis, acc) ==
    IF acc.left_count >= n THEN acc
    ELSE IF \/ ~InBounds(ls, LeftSurfaceIndex(acc.left_count))
            \/ ~InBounds(rs, RightSurfaceIndex(n - acc.left_count))
    THEN [acc EXCEPT !.panic = TRUE]
    ELSE CostLoop(n, ls, rs, parent_surface, max_cap, axis,
                  keep_min(acc,
                           sah_cost(acc.left_count,
                                    ls[LeftSurfaceIndex(acc.left_count) + 1],
                                    n - acc.left_count,
                                    rs[RightSurfaceIndex(n - acc.left_count) + 1],
                                    parent_surface, max_cap),
                           axis))

\* one turn of the loop of lines 222-260, on the slice sorted along axis
axis_pass(sorted, parent_surface, max_cap, axis, acc) ==
    CostLoop(Len(sorted), left_surfaces(sorted), right_surfaces(sorted),
             parent_surface, max_cap, axis,
             [acc EXCEPT !.left_count = 1, !.objects = sorted])

RECURSIVE AxisLoop(_, _, _, _)
\* the loop of lines 222-260 from the axis of index a (1-based in Axes) on;
\* acc.objects is the slice as the turns before left it
AxisLoop(parent_surface, max_cap, a, acc) ==
    IF a > Len(Axes) \/ acc.panic THEN acc
    ELSE IF CmpPanics(acc.objects, Axes[a])
    THEN [acc EXCEPT !.panic = TRUE, !.objects = sort_by_panicked(acc.objects, Axes[a])]
    ELSE AxisLoop(parent_surface, max_cap, a + 1,
                  axis_pass(sort_by(acc.objects, Axes[a]), parent_surface, max_cap,
                            Axes[a], acc))

\* compute_sah: (split, axis, cost) as (mid, dim, min), the slice as it leaves
\* it, and whether it panicked. objects.len() - 1 underflows on an empty slice.
compute_sah(objects, parent_surface, max_cap) ==
    IF Len(objects) = 0
    THEN [mid |-> 0, dim |-> X, min |-> FracInf, panic |-> TRUE,
          objects |-> objects, left_count |-> 0]
    ELSE AxisLoop(parent_surface, max_cap, 1,
                  [mid |-> Len(objects) \div 2, dim |-> X, min |-> FracInf,
                   panic |-> FALSE, objects |-> objects, left_count |-> 1])

\* the slices that hold the objects of s in any order
Reorderings(s) ==
    { [i \in 1..Len(s) |-> s[f[i]]] :
        f \in { g \in [1..Len(s) -> 1..Len(s)] :
                  \A i, j \in 1..Len(s) : i /= j => g[i] /= g[j] } }

\* what a selection at index (0-based) promises of the slice v it leaves: no
\* object before the one at index is greater than it, none after it is smaller
selected(v, index, axis) ==
    /\ \A i \in 1..index : ~is_less(v[index + 1], v[i], axis)
    /\ \A j \in (index + 2)..Len(v) : ~is_less(v[j], v[index + 1], axis)

\* pdqselect::select_by(objects, index, cmp), a crate outside the repository:
\* its outcomes are those its contract allows. It returns with the slice in
\* any order that is selected at index; the order inside the two sides is the
\* crate's business. When the comparator panics (a NaN coordinate) it leaves
\* the objects in any order. An index past the slice is outside the contract.
select_by(objects, index, axis) ==
    IF index >= Len(objects)
    THEN { [panic |-> p, v |-> v] : p \in BOOLEAN, v \in Reorderings(objects) }
    ELSE IF CmpPanics(objects, axis)
    THEN { [panic |-> TRUE, v |-> v] : v \in Reorderings(objects) }
    ELSE { [panic |-> FALSE, v |-> v] :
             v \in { w \in Reorderings(objects) : selected(w, index, axis) } }

\* the selection made along X whatever the axis
partition_along_x(objects, begin, end, split, axis) == select_by(objects, split, X)

\* lines 192-196: the selection at split along the axis, handed the whole slice
partition(objects, begin, end, split, axis) == select_by(objects, split, axis)

Leaf(bounds, begin, end) ==
    [bounds |-> bounds, begin |-> begin, end |-> end, kind |-> "Leaf"]

Internal(bounds, begin, end, left, right) ==
    [bounds |-> bounds, begin |-> begin, end |-> end, kind |-> "Internal",
     left |-> left, right |-> right]

NoNode == [kind |-> "None"]

\* the slice with objects[begin..end) replaced by range
Splice(objects, begin, end, range) ==
    SubSeq(objects, 1, begin) \o range \o SubSeq(objects, end + 1, Len(objects))

\* the split index of the SAH taken as it comes
recenter_unchecked(split, begin, end) == begin + split

\* line 186-190: the split index build_node recurses on
recenter(split, begin, end) ==
    IF split = 0 \/ split >= (end - begin - 1)
    THEN begin + (end - begin) \div 2
    ELSE begin + split

\* the capacity test off by one: a slice one object over the capacity passes
under_capacity_plus_one(objects, begin, end, max_cap) == Len(objects) <= max_cap + 1

\* the capacity test made strict
under_capacity_strict(objects, begin, end, max_cap) == Len(objects) < max_cap

\* line 166: the test that stops the splitting
under_capacity(objects, begin, end, max_cap) == Len(objects) <= max_cap

\* the cost test turned around
not_worth_it_inverted(cost, objects, begin, end) == FracLt(cost, FracOfInt(Len(objects)))

\* line 177: the test that the split is not worth it
not_worth_it(cost, objects, begin, end) == FracGe(cost, FracOfInt(Len(objects)))

\* the outcome of a build_node call: the slice as the call leaves it, the node
\* (when it returns one), the number of build_node calls made, and in_range:
\* whether every call left in place the objects outside the range of its node
Returned(objects, node, calls, in_range) ==
    [panic |-> FALSE, objects |-> objects, node |-> node, calls |-> calls,
     in_range |-> in_range]

Panicked(objects, calls, in_range) ==
    [panic |-> TRUE, objects |-> objects, node |-> NoNode, calls |-> calls,
     in_range |-> in_range]

LeafNode(objects, bounds, begin, end) ==
    Returned(objects, Leaf(bounds, begin, end), 1, TRUE)

\* whether the slices a and b hold the same objects outside [begin, end)
same_outside(a, b, begin, end) ==
    \A i \in 1..Len(a) : (i <= begin \/ i > end) => a[i] = b[i]

RECURSIVE build_node(_, _, _, _)

\* lines 201-206: the Internal node over both children, once both are built
join_children(bounds, begin, end, in_range, left, right) ==
    IF right.panic
    THEN Panicked(right.objects, 1 + left.calls + right.calls,
                  in_range /\ left.in_range /\ right.in_range)
    ELSE Returned(right.objects, Internal(bounds, begin, end, left.node, right.node),
                  1 + left.calls + right.calls,
                  in_range /\ left.in_range /\ right.in_range)

\* line 199: the right child, built on the slice as the left child's build left it
build_right(bounds, begin, split, end, max_cap, in_range, left) ==
    IF left.panic
    THEN { Panicked(left.objects, 1 + left.calls, in_range /\ left.in_range) }
    ELSE { join_children(bounds, begin, end, in_range, left, right) :
             right \in build_node(left.objects, split, end, max_cap) }

\* line 198: the left child, built on the slice as the selection sel left it
build_left(objects, bounds, begin, split, end, max_cap, sel) ==
    IF sel.panic
    THEN { Panicked(sel.v, 1, same_outside(sel.v, objects, begin, end)) }
    ELSE UNION { build_right(bounds, begin, split, end, max_cap,
                             same_outside(sel.v, objects, begin, end), left) :
                   left \in build_node(sel.v, begin, split, max_cap) }

\* lines 192-199: the selection, then the children, for every outcome of the
\* selection
split_node(objects, bounds, begin, end, max_cap, split, axis) ==
    UNION { build_left(objects, bounds, begin, split, end, max_cap, sel) :
              sel \in partition(objects, begin, end, split, axis) }

\* lines 176-190: what build_node does with the answer of compute_sah; objects
\* is the slice with its range [begin, end) as compute_sah left it
after_sah(objects, bounds, begin, end, max_cap, sah) ==
    IF sah.panic THEN { Panicked(objects, 1, TRUE) }
    ELSE IF not_worth_it(sah.min, objects, begin, end)
    THEN { LeafNode(objects, bounds, begin, end) }
    ELSE split_node(objects, bounds, begin, end, max_cap,
                    recenter(sah.mid, begin, end), sah.dim)

\* lines 175: compute_sah on objects[begin..end), which it sorts in place
sah_of_range(objects, bounds, begin, end, max_cap) ==
    compute_sah(SubSeq(objects, begin + 1, end), surface(bounds), max_cap)

\* lines 165-207, with bounds the box line 164 computed. The slicing
\* objects[begin..end] of line 175 panics on a range that is not one of the
\* slice, the slice untouched.
build_with_bounds(objects, bounds, begin, end, max_cap) ==
    IF under_capacity(objects, begin, end, max_cap)
    THEN { LeafNode(objects, bounds, begin, end) }
    ELSE IF begin > end \/ end > Len(objects)
    THEN { Panicked(objects, 1, TRUE) }
    ELSE after_sah(Splice(objects, begin, end,
                          sah_of_range(objects, bounds, begin, end, max_cap).objects),
                   bounds, begin, end, max_cap,
                   sah_of_range(objects, bounds, begin, end, max_cap))

\* build_node(objects, begin, end, max_cap): objects is the WHOLE slice at every
\* level of the recursion. The set of the outcomes the call can have, one for
\* each way the selections can leave the slice.
build_node(objects, begin, end, max_cap) ==
    build_with_bounds(objects, bounds_from_slice(objects), begin, end, max_cap)

with_max_capacity(objects, max_cap) == build_node(objects, 0, Len(objects), max_cap)

DEFAULT_MAX_CAP == 32

build(objects) == with_max_capacity(objects, DEFAULT_MAX_CAP)

RECURSIVE check_node(_, _)
\* is_sound's check_node: "true", "false", or "panic" when the slicing
\* objects[node.begin..node.end] of a leaf reaches past the slice
check_node(objects, node) ==
    IF node.begin > node.end THEN "false"
    ELSE IF node.kind = "Leaf"
    THEN IF node.end > Len(objects) THEN "panic"
         ELSE IF \A i \in (node.begin + 1)..node.end :
                     AABB_eq(union(node.bounds, aabb(objects[i])), node.bounds)
              THEN "true" ELSE "false"
    ELSE LET l == check_node(objects, node.left)
         IN  IF l /= "true" THEN l
             ELSE LET r == check_node(objects, node.right)
                  IN  IF r /= "true" THEN r
                      ELSE IF /\ AABB_eq(union(node.bounds, node.left.bounds), node.bounds)
                              /\ AABB_eq(union(node.bounds, node.right.bounds), node.bounds)
                           THEN "true" ELSE "false"

is_sound(tree, objects) == check_node(objects, tree)

(***************************************************************************)
(* ray.rs                                                                  *)
(***************************************************************************)
None == <<>>
Some(v) == <<v>>

\* 1. / d for a coordinate d of an axis-aligned unit direction (-1, -0.0, 0
\* or 1): the sign of the zero is the sign of the infinity
Recip(d) == IF d = 0 THEN INFINITY ELSE IF d = NEG_ZERO THEN NEG_INFINITY ELSE d

Ray_new(origin, direction) ==
    [origin |-> origin, direction |-> direction,
     inv_direction |-> <<Recip(direction[1]), Recip(direction[2]), Recip(direction[3])>>]

\* the closure min_max of aabb_intersection
min_max(ray, box, axis) ==
    LET a == Fmul(Fsub(Coord(box.high, axis), Coord(ray.origin, axis)),
                  Coord(ray.inv_direction, axis))
        b == Fmul(Fsub(Coord(box.low, axis), Coord(ray.origin, axis)),
                  Coord(ray.inv_direction, axis))
    IN  IF Flt(Coord(ray.direction, axis), 0) THEN <<a, b>> ELSE <<b, a>>

\* one of the two narrowing steps of aabb_intersection (lines 184-195 and
\* 197-208): the interval (t_min, t_max) narrowed by the one of axis, or None
narrow(t, m) ==
    IF Fgt(m[1], t[2]) \/ Flt(m[2], t[1]) THEN None
    ELSE Some(<<IF Fgt(m[1], t[1]) THEN m[1] ELSE t[1],
                IF Flt(m[2], t[2]) THEN m[2] ELSE t[2]>>)

aabb_intersection(ray, box) ==
    LET tx == min_max(ray, box, X)
        ty == narrow(tx, min_max(ray, box, Y))
    IN  IF ty = None THEN None
        ELSE LET tz == narrow(ty[1], min_max(ray, box, Z))
             IN  IF tz = None THEN None
                 ELSE IF Flt(tz[1][2], 0) THEN None
                 ELSE IF Flt(tz[1][1], 0) THEN Some(tz[1][2])
                 ELSE Some(tz[1][1])

(***************************************************************************)
(* Intersected::intersect, a method of the caller's type: an Intersected   *)
(* object is a Bounded object with intersect, what the method answers for  *)
(* each ray of the scene. The answers drawn: no ray hits the object; the   *)
(* ray along X alone hits it, at distance 2; both rays hit it, the one     *)
(* along X at distance 5 and the one along Y at distance 2.                *)
(***************************************************************************)
Rays == { Ray_new(<<0 - 1, 1, 1>>, <<1, 0, 0>>), Ray_new(<<1, 0 - 1, 1>>, <<0, 1, 0>>) }

Intersected(cat) ==
    { [id |-> o.id, aabb |-> o.aabb, centroid |-> o.centroid, size |-> o.size,
       intersect |-> f] :
          o \in cat,
          f \in { [r \in Rays |-> None],
                  [r \in Rays |-> IF r.direction[1] = 1 THEN Some(2) ELSE None],
                  [r \in Rays |-> IF r.direction[1] = 1 THEN Some(5) ELSE Some(2)] } }

intersect(o, ray) == o.intersect[ray]

\* the point of a ray at distance t
PointAt(ray, t) ==
    <<ray.origin[1] + t * Num(ray.direction[1]),
      ray.origin[2] + t * Num(ray.direction[2]),
      ray.origin[3] + t * Num(ray.direction[3])>>

(***************************************************************************)
(* The nearest-hit traversal walk(ray, objects). A running best is the     *)
(* pair of the best distance (INFINITY at first) and of the index in the   *)
(* slice of the object that gave it (0: none yet).                         *)
(***************************************************************************)
NoBest == [dist |-> INFINITY, idx |-> 0, panic |-> FALSE]

RECURSIVE scan_leaf(_, _, _, _, _)
\* a leaf: every object of objects[i0..end) (0-based) tested in order, the best
\* replaced on a strictly closer hit
scan_leaf(ray, objects, i0, end, best) ==
    IF i0 >= end THEN best
    ELSE LET h == intersect(objects[i0 + 1], ray)
             nxt == IF h /= None /\ Flt(h[1], best.dist)
                    THEN [best EXCEPT !.dist = h[1], !.idx = i0 + 1]
                    ELSE best
         IN  scan_leaf(ray, objects, i0 + 1, end, nxt)

\* a leaf visit that reads the first object of the range before it looks at the
\* length of the range
visit_leaf_first(ray, objects, node, best) ==
    IF node.begin >= node.end \/ node.end > Len(objects) THEN [best EXCEPT !.panic = TRUE]
    ELSE scan_leaf(ray, objects, node.begin, node.end, best)

visit_leaf(ray, objects, node, best) ==
    IF node.begin > node.end \/ node.end > Len(objects)
    THEN [best EXCEPT !.panic = TRUE]
    ELSE scan_leaf(ray, objects, node.begin, node.end, best)

\* a child is skipped when its box test gave None or a distance >= the best
skip_child(box_hit, best) == box_hit = None \/ Fge(box_hit[1], best.dist)

\* whether the left child is the one to visit first: the nearer box
left_first(hl, hr) == hr = None \/ (hl /= None /\ Fle(hl[1], hr[1]))

RECURSIVE walk_node(_, _, _, _)
walk_node(ray, objects, node, best) ==
    IF best.panic THEN best
    ELSE IF node.kind = "Leaf" THEN visit_leaf(ray, objects, node, best)
    ELSE LET hl == aabb_intersection(ray, node.left.bounds)
             hr == aabb_intersection(ray, node.right.bounds)
             first == IF left_first(hl, hr) THEN node.left ELSE node.right
             second == IF left_first(hl, hr) THEN node.right ELSE node.left
             h1 == IF left_first(hl, hr) THEN hl ELSE hr
             h2 == IF left_first(hl, hr) THEN hr ELSE hl
             b1 == IF skip_child(h1, best) THEN best
                   ELSE walk_node(ray, objects, first, best)
         IN  IF b1.panic \/ skip_child(h2, b1) THEN b1
             ELSE walk_node(ray, objects, second, b1)

\* what walk returns for a final best: None, Some((distance, &object)), or a panic
WalkResult(objects, best) ==
    IF best.panic THEN [kind |-> "Panic"]
    ELSE IF best.idx = 0 THEN [kind |-> "None"]
    ELSE [kind |-> "Some", dist |-> best.dist, obj |-> objects[best.idx]]

walk(tree, ray, objects) == WalkResult(objects, walk_node(ray, objects, tree, NoBest))

(***************************************************************************)
(* State                                                                   *)
(***************************************************************************)
VARIABLES
    objects,    \* the caller's slice of objects
    orig,       \* the slice as it was handed to the construction
    max_cap,    \* the capacity handed to the construction
    status,     \* "init", then "built" (a tree was returned) or "panicked"
    tree,       \* the root node of the BVH returned
    calls,      \* the number of build_node calls the construction made
    walkers,    \* per thread: the walk call it is running
    abox,       \* AABB algebra: three boxes
    bbox,
    cbox,
    aabb_out    \* AABB algebra: the results of the operation applied last

vars == <<objects, orig, max_cap, status, tree, calls, walkers, abox, bbox, cbox, aabb_out>>

bvh_vars == <<objects, orig, max_cap, status, tree, calls, walkers>>
aabb_vars == <<abox, bbox, cbox, aabb_out>>

Threads == 1..NumThreads

IdleWalker == [pc |-> "idle"]

NoOutput == [op |-> "none"]

(***************************************************************************)
(* Construction: BVH::with_max_capacity and BVH::build                     *)
(***************************************************************************)
\* the scene the walks run over: the three boxes of the catalogue with a volume
InitBVH ==
    /\ objects \in SlicesOf(Intersected({ o \in Catalogue : o.id <= 3 }), MaxObjects)
    /\ orig = objects
    /\ max_cap \in 0..MaxCap
    /\ status = "init"
    /\ tree = NoNode
    /\ calls = 0
    /\ walkers = [t \in Threads |-> IdleWalker]

Construct(r, cap) ==
    /\ status = "init"
    /\ status' = IF r.panic THEN "panicked" ELSE "built"
    /\ tree' = r.node
    /\ objects' = r.objects
    /\ calls' = r.calls
    /\ max_cap' = cap
    /\ UNCHANGED <<orig, walkers>>
    /\ UNCHANGED aabb_vars

WithMaxCapacity == \E r \in with_max_capacity(objects, max_cap) : Construct(r, max_cap)

Build == \E r \in build(objects) : Construct(r, DEFAULT_MAX_CAP)

(***************************************************************************)
(* Traversal: the threads of the renderer each run walk calls on the built *)
(* tree and its slice, a node at a time. The stack of a walker holds the   *)
(* nodes it still has to look at, each child with the result of its box    *)
(* test.                                                                   *)
(***************************************************************************)
Entry(node, test, hit) == [node |-> node, test |-> test, hit |-> hit]

\* one step of a walk: the top of the stack is skipped or visited
visit(ray, objs, stack, best) ==
    LET top == Head(stack)
        rest == Tail(stack)
        node == top.node
    IN  IF top.test /\ skip_child(top.hit, best) THEN [stack |-> rest, best |-> best]
        ELSE IF node.kind = "Leaf"
        THEN LET b == visit_leaf(ray, objs, node, best)
             IN  [stack |-> IF b.panic THEN <<>> ELSE rest, best |-> b]
        ELSE LET hl == aabb_intersection(ray, node.left.bounds)
                 hr == aabb_intersection(ray, node.right.bounds)
                 l == Entry(node.left, TRUE, hl)
                 r == Entry(node.right, TRUE, hr)
             IN  [stack |-> (IF left_first(hl, hr) THEN <<l, r>> ELSE <<r, l>>) \o rest,
                  best |-> best]

\* a best shared by the threads: what thread 1 has found so far is what every
\* walk goes on from
shared_best(t) ==
    IF walkers[1].pc = "walking" THEN walkers[1].best ELSE walkers[t].best

\* the running best of a walk is its own
running_best(t) == walkers[t].best

StartWalk(t, ray) ==
    /\ status = "built"
    /\ walkers[t].pc = "idle"
    /\ walkers' = [walkers EXCEPT ![t] =
                      [pc |-> "walking", ray |-> ray,
                       stack |-> <<Entry(tree, FALSE, None)>>, best |-> NoBest]]
    /\ UNCHANGED <<objects, orig, max_cap, status, tree, calls>>
    /\ UNCHANGED aabb_vars

WalkStep(t) ==
    /\ walkers[t].pc = "walking"
    /\ walkers[t].stack /= <<>>
    /\ LET v == visit(walkers[t].ray, objects, walkers[t].stack, running_best(t))
       IN  walkers' = [walkers EXCEPT ![t].stack = v.stack, ![t].best = v.best]
    /\ UNCHANGED <<objects, orig, max_cap, status, tree, calls>>
    /\ UNCHANGED aabb_vars

FinishWalk(t) ==
    /\ walkers[t].pc = "walking"
    /\ walkers[t].stack = <<>>
    /\ walkers' = [walkers EXCEPT ![t] =
                      [pc |-> "done", ray |-> walkers[t].ray,
                       result |-> WalkResult(objects, walkers[t].best)]]
    /\ UNCHANGED <<objects, orig, max_cap, status, tree, calls>>
    /\ UNCHANGED aabb_vars

\* the caller has its result: the thread is free for its next ray
ReturnWalk(t) ==
    /\ walkers[t].pc = "done"
    /\ walkers' = [walkers EXCEPT ![t] = IdleWalker]
    /\ UNCHANGED <<objects, orig, max_cap, status, tree, calls>>
    /\ UNCHANGED aabb_vars

Init ==
    /\ InitBVH
    /\ abox = AABB_empty /\ bbox = AABB_empty /\ cbox = AABB_empty
    /\ aabb_out = NoOutput

Next ==
    \/ WithMaxCapacity
    \/ Build
    \/ \E t \in Threads, ray \in Rays : StartWalk(t, ray)
    \/ \E t \in Threads : WalkStep(t)
    \/ \E t \in Threads : FinishWalk(t)
    \/ \E t \in Threads : ReturnWalk(t)

Spec == Init /\ [][Next]_vars

(***************************************************************************)
(* The construction alone, on slices that may hold objects with a NaN      *)
(* centroid coordinate                                                     *)
(***************************************************************************)
InitBuild ==
    /\ objects \in SlicesOf(Catalogue \cup NaNCatalogue, MaxObjects)
    /\ orig = objects
    /\ max_cap \in 0..MaxCap
    /\ status = "init"
    /\ tree = NoNode
    /\ calls = 0
    /\ walkers = [t \in Threads |-> IdleWalker]
    /\ abox = AABB_empty /\ bbox = AABB_empty /\ cbox = AABB_empty
    /\ aabb_out = NoOutput

NextBuild == WithMaxCapacity \/ Build

SpecBuild == InitBuild /\ [][NextBuild]_vars

(***************************************************************************)
(* The partition step of build_node (lines 186-196) as a function of what  *)
(* it is handed: the slice, a range [begin, end) build_node is called on,  *)
(* sorted as compute_sah leaves it, and a split index and an axis          *)
(***************************************************************************)
RECURSIVE RangesUnder(_, _)
\* the ranges build_node is called on under the node of range [begin, end),
\* whatever compute_sah answers: a split index of 1..n-1 on n >= 2 objects
RangesUnder(begin, end) ==
    { <<begin, end>> } \cup
    UNION { RangesUnder(begin, recenter(mid, begin, end))
                \cup RangesUnder(recenter(mid, begin, end), end) :
              mid \in 1..(end - begin - 1) }

\* a slice of valid objects, handed over with a capacity
InitSlice ==
    /\ objects \in SlicesOf(Catalogue, MaxObjects)
    /\ orig = objects
    /\ max_cap \in 0..MaxCap
    /\ status = "init"
    /\ tree = NoNode
    /\ calls = 0
    /\ walkers = [t \in Threads |-> IdleWalker]
    /\ abox = AABB_empty /\ bbox = AABB_empty /\ cbox = AABB_empty
    /\ aabb_out = NoOutput

\* lines 186-196 on a range of 2 objects or more, as a function of the slice,
\* the range and the answer of compute_sah: the split recentered, then the
\* selection around it along the axis, in any of the ways the selection can
\* leave the slice. The slice comes in any order: the steps do not read the
\* order compute_sah left, and compute_sah returns from no such range (its
\* loop panics at line 251 after the sort along X).
Partition ==
    /\ aabb_out = NoOutput
    /\ \E range \in RangesUnder(0, Len(objects)), axis \in {X, Y, Z} :
           /\ range[2] - range[1] >= 2
           /\ \E sah_split \in 0..(range[2] - range[1]) :
                  \E sel \in partition(objects, range[1], range[2],
                                       recenter(sah_split, range[1], range[2]), axis) :
                      /\ ~sel.panic
                      /\ objects' = sel.v
                      /\ aabb_out' = [op |-> "partition",
                                       begin |-> range[1], end |-> range[2],
                                       sah_split |-> sah_split, axis |-> axis,
                                       split |-> recenter(sah_split, range[1], range[2])]
    /\ UNCHANGED <<orig, max_cap, status, tree, calls, walkers>>
    /\ UNCHANGED <<abox, bbox, cbox>>

SpecPartition == InitSlice /\ [][Partition]_vars

(***************************************************************************)
(* is_sound on the tree a construction returned, handed any slice          *)
(***************************************************************************)
\* bvh.is_sound(slice)
IsSound ==
    /\ status = "built"
    /\ aabb_out = NoOutput
    /\ \E slice \in SlicesOf(Catalogue, MaxObjects) :
           aabb_out' = [op |-> "is_sound", objects |-> slice,
                        result |-> is_sound(tree, slice)]
    /\ UNCHANGED <<abox, bbox, cbox>>
    /\ UNCHANGED bvh_vars

NextSound == WithMaxCapacity \/ Build \/ IsSound

SpecSound == InitSlice /\ [][NextSound]_vars

(***************************************************************************)
(* check_node (lines 137-152) as a function of the node and of the slice   *)
(* it is handed: any value of the type Node of one or three nodes, its     *)
(* ranges inside the slice or not, its bounds those of its objects or not  *)
(***************************************************************************)
\* the bounds of a node over [begin, end): those of the objects of its range,
\* those of the whole slice, a box larger than both (grown to a point away from
\* every object), a box that holds no object, the empty box
NodeBounds(objs, begin, end) ==
    { UnionFold(objs, begin + 1, IF end < Len(objs) THEN end ELSE Len(objs), AABB_empty),
      bounds_from_slice(objs),
      grow(bounds_from_slice(objs), <<9, 9, 9>>),
      grow(AABB_empty, <<9, 9, 9>>),
      AABB_empty }

LeavesOver(objs, begin, end) == { Leaf(b, begin, end) : b \in NodeBounds(objs, begin, end) }

\* a leaf over any range, up to one past the slice, or a root over the whole
\* slice split at k into two leaves
NodeValues(objs) ==
    UNION { LeavesOver(objs, r[1], r[2]) :
              r \in (0..(Len(objs) + 1)) \X (0..(Len(objs) + 1)) }
    \cup
    UNION { { Internal(b, 0, Len(objs), l, r) :
                b \in NodeBounds(objs, 0, Len(objs)),
                l \in LeavesOver(objs, 0, k),
                r \in LeavesOver(objs, k, Len(objs)) } : k \in 0..Len(objs) }

InitCheckNode ==
    /\ objects \in SlicesOf(Catalogue, MaxObjects)
    /\ orig = objects
    /\ tree \in NodeValues(objects)
    /\ max_cap = 0
    /\ status = "init"
    /\ calls = 0
    /\ walkers = [t \in Threads |-> IdleWalker]
    /\ abox = AABB_empty /\ bbox = AABB_empty /\ cbox = AABB_empty
    /\ aabb_out = NoOutput

\* check_node(objects, &node)
CheckNode ==
    /\ aabb_out = NoOutput
    /\ aabb_out' = [op |-> "check_node", result |-> check_node(objects, tree)]
    /\ UNCHANGED <<abox, bbox, cbox>>
    /\ UNCHANGED bvh_vars

SpecCheckNode == InitCheckNode /\ [][CheckNode]_vars

(***************************************************************************)
(* The AABB algebra, applied to boxes drawn from a bounded set             *)
(***************************************************************************)
MaxCoord == 1

Coords == 0..MaxCoord

Points == { <<x, y, z>> : x \in Coords, y \in Coords, z \in Coords }

\* the boxes with_bounds accepts, and the empty one
Boxes ==
    { with_bounds(c[1], c[2]) :
        c \in { d \in Points \X Points : \A i \in 1..3 : d[1][i] <= d[2][i] } }
    \cup { AABB_empty }

ThirdBoxes ==
    { AABB_empty,
      with_bounds(<<0, 0, 0>>, <<0, 0, 0>>),
      with_bounds(<<0, 0, 0>>, <<1, 1, 1>>),
      with_bounds(<<1, 0, 1>>, <<1, 1, 1>>) }

InitAABB ==
    /\ abox \in Boxes
    /\ bbox \in Boxes
    /\ cbox \in ThirdBoxes
    /\ aabb_out = NoOutput
    /\ objects = <<>> /\ orig = <<>> /\ max_cap = 0 /\ status = "init"
    /\ tree = NoNode /\ calls = 0
    /\ walkers = [t \in Threads |-> IdleWalker]

\* a.union(&b) and the unions the algebraic laws compare it with
Union ==
    /\ aabb_out = NoOutput
    /\ aabb_out' = [op |-> "union",
                    a_b |-> union(abox, bbox),
                    b_a |-> union(bbox, abox),
                    ab_c |-> union(union(abox, bbox), cbox),
                    a_bc |-> union(abox, union(bbox, cbox)),
                    empty_a |-> union(AABB_empty, abox),
                    a_empty |-> union(abox, AABB_empty)]
    /\ UNCHANGED <<abox, bbox, cbox>>
    /\ UNCHANGED bvh_vars

\* a.union_mut(&b): a grown in place; the call is recorded with the box a was
UnionMut ==
    /\ aabb_out = NoOutput
    /\ abox' = union_mut(abox, bbox)
    /\ aabb_out' = [op |-> "union_mut", self |-> abox, other |-> bbox]
    /\ UNCHANGED <<bbox, cbox>>
    /\ UNCHANGED bvh_vars

\* the points a caller grows a box by: a corner of the third box
GrowPoints == { cbox.low, cbox.high }

\* a.grow(&p): a new box, a as it was
Grow ==
    /\ aabb_out = NoOutput
    /\ \E p \in GrowPoints :
           aabb_out' = [op |-> "grow", self |-> abox, point |-> p, result |-> grow(abox, p)]
    /\ UNCHANGED <<abox, bbox, cbox>>
    /\ UNCHANGED bvh_vars

\* a.grow_mut(&p): a grown in place
GrowMut ==
    /\ aabb_out = NoOutput
    /\ \E p \in GrowPoints :
           /\ abox' = grow_mut(abox, p)
           /\ aabb_out' = [op |-> "grow_mut", self |-> abox, point |-> p]
    /\ UNCHANGED <<bbox, cbox>>
    /\ UNCHANGED bvh_vars

NextAABB == Union \/ UnionMut \/ Grow \/ GrowMut

SpecAABB == InitAABB /\ [][NextAABB]_vars

(***************************************************************************)
(* The constructor with_bounds, largest_axis and the slab test, applied to *)
(* corners, boxes and axis-aligned rays drawn from bounded sets            *)
(***************************************************************************)
MaxExtent == 2

\* boxes with a corner at the origin, and the two boxes of the examples of
\* aabb_intersection's documentation
RayBoxes ==
    { with_bounds(<<0, 0, 0>>, <<x, y, z>>) :
        x \in 1..MaxExtent, y \in 1..MaxExtent, z \in 1..MaxExtent }
    \cup { with_bounds(<<1, 0 - 1, 0 - 1>>, <<3, 1, 1>>),
           with_bounds(<<0 - 1, 0 - 1, 0 - 1>>, <<1, 1, 1>>) }

\* the unit vectors along the axes, both ways, as Vector::new builds them (the
\* zeros positive) and as the negation of one builds them (the zeros negative)
Directions ==
    { <<1, 0, 0>>, <<0 - 1, 0, 0>>, <<0, 1, 0>>, <<0, 0 - 1, 0>>, <<0, 0, 1>>, <<0, 0, 0 - 1>> }
    \cup
    { <<1, NEG_ZERO, NEG_ZERO>>, <<0 - 1, NEG_ZERO, NEG_ZERO>>,
      <<NEG_ZERO, 1, NEG_ZERO>>, <<NEG_ZERO, 0 - 1, NEG_ZERO>>,
      <<NEG_ZERO, NEG_ZERO, 1>>, <<NEG_ZERO, NEG_ZERO, 0 - 1>> }

RayOrigins ==
    { <<x, y, z>> : x \in (0 - 1)..(MaxExtent + 1), y \in (0 - 1)..(MaxExtent + 1),
                    z \in (0 - 1)..(MaxExtent + 1) }

InitGeom ==
    /\ abox \in RayBoxes \cup { AABB_empty }
    /\ bbox = AABB_empty
    /\ cbox = AABB_empty
    /\ aabb_out = NoOutput
    /\ objects = <<>> /\ orig = <<>> /\ max_cap = 0 /\ status = "init"
    /\ tree = NoNode /\ calls = 0
    /\ walkers = [t \in Threads |-> IdleWalker]

\* AABB::with_bounds(low, high), in a build with or without debug assertions
WithBounds ==
    /\ aabb_out = NoOutput
    /\ \E low \in Points, high \in Points, debug_assertions \in BOOLEAN :
           aabb_out' = [op |-> "with_bounds", low |-> low, high |-> high,
                        debug_assertions |-> debug_assertions,
                        call |-> with_bounds_call(low, high, debug_assertions)]
    /\ UNCHANGED <<abox, bbox, cbox>>
    /\ UNCHANGED bvh_vars

\* a.largest_axis()
LargestAxis ==
    /\ aabb_out = NoOutput
    /\ aabb_out' = [op |-> "largest_axis", self |-> abox, axis |-> largest_axis(abox)]
    /\ UNCHANGED <<abox, bbox, cbox>>
    /\ UNCHANGED bvh_vars

\* Ray::new(origin, direction).aabb_intersection(&a)
SlabTest ==
    /\ aabb_out = NoOutput
    /\ \E origin \in RayOrigins, direction \in Directions :
           aabb_out' = [op |-> "aabb_intersection",
                        ray |-> Ray_new(origin, direction), box |-> abox,
                        hit |-> aabb_intersection(Ray_new(origin, direction), abox)]
    /\ UNCHANGED <<abox, bbox, cbox>>
    /\ UNCHANGED bvh_vars

\* a.contains(&point)
Contains ==
    /\ aabb_out = NoOutput
    /\ \E point \in RayOrigins :
           aabb_out' = [op |-> "contains", self |-> abox, point |-> point,
                        result |-> contains(abox, point)]
    /\ UNCHANGED <<abox, bbox, cbox>>
    /\ UNCHANGED bvh_vars

NextGeom == WithBounds \/ LargestAxis \/ SlabTest \/ Contains

SpecGeom == InitGeom /\ [][NextGeom]_vars

(***************************************************************************)
(* Claims                                                                  *)
(***************************************************************************)
RECURSIVE Leaves(_)
\* the leaves of a tree, left to right
Leaves(node) ==
    IF node.kind = "Leaf" THEN <<node>> ELSE Leaves(node.left) \o Leaves(node.right)

Count(seq, o) == Cardinality({ i \in 1..Len(seq) : seq[i] = o })

\* the 1-based indices of the objects a linear scan of the slice finds hit
HitIndices(ray, objs) == { i \in 1..Len(objs) : intersect(objs[i], ray) /= None }

\* every hit an object reports lies inside its own aabb()
HitsInsideAABB(ray, objs) ==
    \A i \in HitIndices(ray, objs) :
        contains(aabb(objs[i]), PointAt(ray, intersect(objs[i], ray)[1]))

\* C1: for every slice and every max_cap >= 1, with_max_capacity returns a tree
\* and is_sound on that tree and the reordered slice returns true.
C1_BuildIsSound ==
    (status /= "init" /\ max_cap >= 1)
        => (status = "built" /\ is_sound(tree, objects) = "true")

\* C2: for every slice of n objects and every max_cap, with_max_capacity
\* returns a tree whose leaf ranges partition 0..n: every index lies in exactly
\* one leaf range and no leaf range reaches outside 0..n.
C2_LeavesPartition ==
    status /= "init" =>
        /\ status = "built"
        /\ \A k \in 1..Len(Leaves(tree)) :
               0 <= Leaves(tree)[k].begin /\ Leaves(tree)[k].end <= Len(objects)
        /\ \A i \in 0..(Len(objects) - 1) :
               Cardinality({ k \in 1..Len(Leaves(tree)) :
                               Leaves(tree)[k].begin <= i /\ i < Leaves(tree)[k].end }) = 1

\* C3: every slice has its tree built by with_max_capacity, and on that tree
\* and the reordered slice, with hits reported only inside the objects' boxes,
\* walk returns Some((d, o)) exactly when a linear scan finds a hit, d the least
\* hit distance and o an object attaining it, and None exactly when the scan
\* finds none.
C3_WalkIsNearestHit ==
    /\ status /= "init" => status = "built"
    /\ \A t \in Threads :
           (walkers[t].pc = "done" /\ HitsInsideAABB(walkers[t].ray, objects)) =>
               LET ray == walkers[t].ray
                   res == walkers[t].result
                   hits == HitIndices(ray, objects)
               IN  /\ res.kind \in {"None", "Some"}
                   /\ (res.kind = "None") <=> (hits = {})
                   /\ res.kind = "Some" =>
                          /\ \E i \in hits : objects[i] = res.obj
                          /\ intersect(res.obj, ray) = Some(res.dist)
                          /\ \A i \in hits : res.dist <= intersect(objects[i], ray)[1]

\* C4: on a slice of length 0, with_max_capacity and build finish without
\* recursing and without panicking, for every max_cap, and return the single
\* Leaf of range [0, 0) and bounds AABB::empty().
C4_EmptySliceIsEmptyLeaf ==
    (status /= "init" /\ Len(orig) = 0) =>
        /\ status = "built"
        /\ calls = 1
        /\ tree.kind = "Leaf"
        /\ tree.begin = 0
        /\ tree.end = 0
        /\ tree.bounds.low = <<INFINITY, INFINITY, INFINITY>>
        /\ tree.bounds.high = <<NEG_INFINITY, NEG_INFINITY, NEG_INFINITY>>

C4_Witness == status = "built" /\ Len(orig) = 0 /\ max_cap = 0

\* C5: on the tree built from a slice of 0 objects, walk returns None for every ray.
C5_EmptyWalkIsNone ==
    \A t \in Threads :
        (walkers[t].pc = "done" /\ Len(orig) = 0) => walkers[t].result.kind = "None"

C5_Witness ==
    \E t \in Threads : walkers[t].pc = "done" /\ Len(orig) = 0 /\ max_cap = 0

\* C6: on a slice of exactly 1 object, with_max_capacity returns a single Leaf
\* of range [0, 1), for every max_cap, 0 included.
C6_SingleObjectIsLeaf ==
    (status /= "init" /\ Len(orig) = 1) =>
        /\ status = "built"
        /\ tree.kind = "Leaf"
        /\ tree.begin = 0
        /\ tree.end = 1

C6_Witness == status = "built" /\ Len(orig) = 1 /\ max_cap = 0

\* C7: with_max_capacity only permutes the caller's slice: same length, same
\* multiset of objects, none duplicated, dropped or altered.
C7_OnlyPermutes ==
    status /= "init" =>
        /\ Len(objects) = Len(orig)
        /\ \A i \in 1..Len(orig) : Count(objects, orig[i]) = Count(orig, orig[i])

\* a call that did reorder the slice
C7_Witness == status /= "init" /\ objects /= orig

\* C8: walk calls running concurrently, in any interleaving, leave the tree and
\* the slice unchanged, and each returns what it returns when run alone.
C8_ConcurrentWalks ==
    [][status = "built" =>
          /\ tree' = tree
          /\ objects' = objects
          /\ \A t \in Threads :
                 walkers'[t].pc = "done" =>
                     walkers'[t].result = walk(tree', walkers'[t].ray, objects')]_vars

\* two walks in flight at once over a slice with a hit, one of them finished
C8_Witness ==
    \E t, u \in Threads :
        /\ t /= u
        /\ walkers[t].pc = "done"
        /\ walkers[t].result.kind = "Some"
        /\ walkers[u].pc = "walking"
        /\ walkers[u].best.idx /= 0

\* C9: AABB::empty() is the identity of union on both sides: for every box b,
\* AABB::empty().union(&b) == b and b.union(&AABB::empty()) == b.
C9_EmptyIsIdentity ==
    aabb_out.op = "union" =>
        /\ AABB_eq(aabb_out.empty_a, abox)
        /\ AABB_eq(aabb_out.a_empty, abox)

\* C10: union is commutative and associative over all boxes, the empty one
\* included.
C10_UnionCommutesAssociates ==
    aabb_out.op = "union" =>
        /\ AABB_eq(aabb_out.a_b, aabb_out.b_a)
        /\ AABB_eq(aabb_out.ab_c, aabb_out.a_bc)

\* C11: for all boxes a, b and every point p, a point a or b contains is
\* contained in a.union(&b); union leaves a as it was, and union_mut leaves in a
\* the box union returns.
C11_UnionContains ==
    [][/\ aabb_out'.op = "union" =>
              /\ abox' = abox
              /\ \A p \in Points :
                     (contains(abox, p) \/ contains(bbox, p)) => contains(aabb_out'.a_b, p)
       /\ aabb_out'.op = "union_mut" =>
              /\ abox' = union(abox, bbox)
              /\ \A p \in Points :
                     (contains(abox, p) \/ contains(bbox, p)) => contains(abox', p)]_vars

\* a union_mut that had to grow: the other box holds a point self did not
C11_Witness ==
    /\ aabb_out.op = "union_mut"
    /\ \E p \in Points :
           /\ contains(aabb_out.other, p)
           /\ ~contains(aabb_out.self, p)
           /\ contains(abox, p)

\* whether an object of the slice reports a centroid with a NaN coordinate
HasNaNCentroid(objs) ==
    \E i \in 1..Len(objs) : \E axis \in {X, Y, Z} : Coord(centroid(objs[i]), axis) = NAN

\* C12 as stated: if any object of the slice reports a centroid with a NaN
\* coordinate, with_max_capacity panics and returns no tree.
C12_NaNCentroidPanics ==
    (status /= "init" /\ HasNaNCentroid(orig)) => (status = "panicked" /\ tree = NoNode)

\* C12 amended: if the slice holds 2 objects or more, and more than max_cap, and
\* any of them reports a centroid with a NaN coordinate, with_max_capacity
\* panics and returns no tree.
C12_NaNCentroidPanicsWhenOrdered ==
    (status /= "init" /\ HasNaNCentroid(orig) /\ Len(orig) >= 2 /\ Len(orig) > max_cap)
        => (status = "panicked" /\ tree = NoNode)

\* a call that panicked in the comparator of its first sort, on a NaN X coordinate
C12_Witness ==
    /\ status = "panicked"
    /\ Len(orig) >= 2
    /\ Len(orig) > max_cap
    /\ \E i \in 1..Len(orig) : Coord(centroid(orig[i]), X) = NAN

\* low is greater than high on at least one axis
Inverted(low, high) == \E i \in 1..3 : low[i] > high[i]

\* C13 as stated: with_bounds(low, high) with low greater than high on some
\* axis fails an assertion; it returns no box at all.
C13_InvertedIsRejected ==
    (aabb_out.op = "with_bounds" /\ Inverted(aabb_out.low, aabb_out.high))
        => aabb_out.call.panic

\* C13 amended: with low greater than high on some axis, with_bounds fails an
\* assertion in a build with debug assertions; in a build without them it
\* returns the box with the two corners exactly as given, neither clamped nor
\* swapped.
C13_InvertedIsRejectedInDebug ==
    (aabb_out.op = "with_bounds" /\ Inverted(aabb_out.low, aabb_out.high)) =>
        /\ aabb_out.debug_assertions => aabb_out.call.panic
        /\ ~aabb_out.debug_assertions =>
               /\ ~aabb_out.call.panic
               /\ aabb_out.call.box.low = aabb_out.low
               /\ aabb_out.call.box.high = aabb_out.high

\* an inverted pair of corners that failed the assertion
C13_Witness ==
    /\ aabb_out.op = "with_bounds"
    /\ Inverted(aabb_out.low, aabb_out.high)
    /\ aabb_out.debug_assertions
    /\ aabb_out.call.panic

\* the set of ray parameters t at which the ray is between the two planes of the
\* box on axis, as the pair of its ends; the pair <<INFINITY, NEG_INFINITY>>
\* is the empty set (a ray that runs beside the slab)
AxisInterval(ray, box, axis) ==
    LET o == Coord(ray.origin, axis)
        d == Num(Coord(ray.direction, axis))
        lo == Coord(box.low, axis)
        hi == Coord(box.high, axis)
    IN  IF d > 0 THEN <<lo - o, hi - o>>
        ELSE IF d < 0 THEN <<o - hi, o - lo>>
        ELSE IF lo <= o /\ o <= hi THEN <<NEG_INFINITY, INFINITY>>
        ELSE <<INFINITY, NEG_INFINITY>>

\* what C15 says the slab test returns
SlabExpected(ray, box) ==
    LET ix == AxisInterval(ray, box, X)
        iy == AxisInterval(ray, box, Y)
        iz == AxisInterval(ray, box, Z)
        t_min == Max(ix[1], Max(iy[1], iz[1]))
        t_max == 0 - Max(0 - ix[2], Max(0 - iy[2], 0 - iz[2]))
    IN  IF t_min > t_max THEN None
        ELSE IF t_max < 0 THEN None
        ELSE IF t_min < 0 THEN Some(t_max)
        ELSE Some(t_min)

\* C15: on a non-empty box, aabb_intersection returns None when the per-axis
\* parameter intervals are disjoint or the box is behind the origin, the exit
\* distance when the origin is inside the box, the entry distance otherwise.
C15_SlabTest ==
    (aabb_out.op = "aabb_intersection" /\ ~is_empty(aabb_out.box))
        => aabb_out.hit = SlabExpected(aabb_out.ray, aabb_out.box)

\* C16: largest_axis returns an axis of maximal extent, X whenever its extent
\* is >= both others, otherwise Y whenever its extent is >= Z's, otherwise Z.
C16_LargestAxis ==
    (aabb_out.op = "largest_axis" /\ ~is_empty(aabb_out.self)) =>
        LET b == aabb_out.self
            ex == b.high[1] - b.low[1]
            ey == b.high[2] - b.low[2]
            ez == b.high[3] - b.low[3]
            e == <<ex, ey, ez>>
        IN  /\ \A i \in 1..3 : e[aabb_out.axis + 1] >= e[i]
            /\ (ex >= ey /\ ex >= ez) => aabb_out.axis = X
            /\ (~(ex >= ey /\ ex >= ez) /\ ey >= ez) => aabb_out.axis = Y
            /\ (~(ex >= ey /\ ex >= ez) /\ ~(ey >= ez)) => aabb_out.axis = Z

\* a tie between Y and Z, both larger than X, resolved to Y
C16_Witness ==
    /\ aabb_out.op = "largest_axis"
    /\ aabb_out.axis = Y
    /\ aabb_out.self.high[2] - aabb_out.self.low[2]
           = aabb_out.self.high[3] - aabb_out.self.low[3]
    /\ aabb_out.self.high[1] - aabb_out.self.low[1]
           < aabb_out.self.high[2] - aabb_out.self.low[2]

RECURSIVE Nodes(_)
\* the nodes of a tree
Nodes(node) ==
    IF node.kind = "Internal"
    THEN {node} \cup Nodes(node.left) \cup Nodes(node.right)
    ELSE {node}

\* a slice the construction has to accept: no object with a NaN centroid
ValidSlice(objs) == ~HasNaNCentroid(objs)

\* C14: with_max_capacity returns a tree in which every node whose range length
\* end - begin is at most max_cap is a Leaf: no Internal node covers max_cap
\* objects or fewer.
C14_SmallRangesAreLeaves ==
    (status /= "init" /\ ValidSlice(orig)) =>
        /\ status = "built"
        /\ \A node \in Nodes(tree) :
               (node.end - node.begin <= max_cap) => node.kind = "Leaf"

\* C17: with_max_capacity returns a tree in which the bounds of each node are
\* the union, folded from AABB::empty(), of the AABBs of exactly the objects at
\* the indices [begin, end) of the reordered slice.
C17_BoundsAreOfOwnRange ==
    (status /= "init" /\ ValidSlice(orig)) =>
        /\ status = "built"
        /\ \A node \in Nodes(tree) :
               node.bounds = UnionFold(objects, node.begin + 1, node.end, AABB_empty)

\* C18: with_max_capacity returns a tree in which the bounds of each Internal
\* node equal the union of the bounds of its two children.
C18_BoundsAreUnionOfChildren ==
    (status /= "init" /\ ValidSlice(orig)) =>
        /\ status = "built"
        /\ \A node \in Nodes(tree) :
               node.kind = "Internal" =>
                   AABB_eq(node.bounds, union(node.left.bounds, node.right.bounds))

\* C19: with_max_capacity returns a tree in which each Internal node of range
\* [begin, end) has children of ranges [begin, split) and [split, end).
C19_ChildrenRangesAreContiguous ==
    (status /= "init" /\ ValidSlice(orig)) =>
        /\ status = "built"
        /\ \A node \in Nodes(tree) :
               node.kind = "Internal" =>
                   /\ node.left.begin = node.begin
                   /\ node.left.end = node.right.begin
                   /\ node.right.end = node.end

\* the SAH costs of the splits of a range, one per axis and per left_count in
\* 1..n-1: the range sorted along the axis, the surface of the union of its
\* first left_count objects and the one of the rest
SahCosts(range, parent_surface, cap) ==
    { sah_cost(k,
               surface(UnionFold(sort_by(range, axis), 1, k, AABB_empty)),
               Len(range) - k,
               surface(UnionFold(sort_by(range, axis), k + 1, Len(range), AABB_empty)),
               parent_surface, cap) :
        k \in 1..(Len(range) - 1), axis \in {X, Y, Z} }

\* the minimal SAH cost of a range is strictly less than its number of objects
MinCostBelowCount(range, parent_surface, cap) ==
    \E cost \in SahCosts(range, parent_surface, cap) : FracLt(cost, FracOfInt(Len(range)))

\* C20: with_max_capacity returns a tree in which a node, root or not, was split
\* only if the minimal SAH cost of its own range is strictly less than the
\* number end - begin of objects of that range.
C20_SplitOnlyBelowOwnCount ==
    (status /= "init" /\ ValidSlice(orig)) =>
        /\ status = "built"
        /\ \A node \in Nodes(tree) :
               node.kind = "Internal" =>
                   MinCostBelowCount(SubSeq(objects, node.begin + 1, node.end),
                                     surface(node.bounds), max_cap)

\* C27: contains(p) is true exactly when low <= p <= high on all three axes,
\* both corners included; AABB::empty() contains no point.
C27_ContainsIsClosedBox ==
    aabb_out.op = "contains" =>
        /\ aabb_out.result <=>
               \A i \in 1..3 : /\ aabb_out.self.low[i] <= aabb_out.point[i]
                                /\ aabb_out.point[i] <= aabb_out.self.high[i]
        /\ aabb_out.self = AABB_empty => ~aabb_out.result

\* a point on a face of the box, and a corner, found inside
C27_Witness ==
    /\ aabb_out.op = "contains"
    /\ aabb_out.result
    /\ aabb_out.point[1] = aabb_out.self.high[1]
    /\ aabb_out.point[2] = aabb_out.self.low[2]

\* the call of compute_sah the construction makes at its root: the whole
\* slice, the surface of its bounds, max_cap
RootSah == compute_sah(orig, surface(bounds_from_slice(orig)), max_cap)

\* the construction went past the capacity test on a valid slice of 2 objects
\* or more, and so called compute_sah on it
RootSahCalled ==
    /\ status /= "init"
    /\ ValidSlice(orig)
    /\ Len(orig) >= 2
    /\ Len(orig) > max_cap

\* the range as compute_sah has sorted it when it evaluates the costs of the
\* axis of index a in Axes: along X, then Y, then Z, each sort a stable one of
\* the order the one before left
RECURSIVE SortedFor(_, _)
SortedFor(range, a) ==
    IF a = 1 THEN sort_by(range, Axes[1])
    ELSE sort_by(SortedFor(range, a - 1), Axes[a])

\* the cost of the split of the range after its first k objects on that axis
SplitCost(range, a, k, parent_surface, cap) ==
    sah_cost(k,
             surface(UnionFold(SortedFor(range, a), 1, k, AABB_empty)),
             Len(range) - k,
             surface(UnionFold(SortedFor(range, a), k + 1, Len(range), AABB_empty)),
             parent_surface, cap)

\* C24: on a range of n >= 2 objects, compute_sah returns the split, the axis
\* and the cost of a split of minimal cost over the three axes and every
\* left_count in 1..n-1, the first one in the order X, Y, Z and, within an
\* axis, the one of lowest index.
C24_SahReturnsFirstMinimum ==
    (RootSahCalled /\ max_cap >= 1) =>
        LET n == Len(orig)
            ps == surface(bounds_from_slice(orig))
            a0 == CHOOSE a \in 1..3 : Axes[a] = RootSah.dim
        IN  /\ ~RootSah.panic
            /\ RootSah.mid \in 1..(n - 1)
            /\ RootSah.min = SplitCost(orig, a0, RootSah.mid, ps, max_cap)
            /\ \A a \in 1..3 : \A k \in 1..(n - 1) :
                   /\ ~FracLt(SplitCost(orig, a, k, ps, max_cap), RootSah.min)
                   /\ (a < a0 \/ (a = a0 /\ k < RootSah.mid))
                          => FracLt(RootSah.min, SplitCost(orig, a, k, ps, max_cap))

\* C28: on a range of n >= 2 objects, every index compute_sah reads the two
\* tables of surfaces at lies within their n - 1 entries: it never fails with
\* an access out of bounds.
C28_SahIndicesInBounds ==
    RootSahCalled =>
        /\ ~RootSah.panic
        /\ \A left_count \in 1..(Len(orig) - 1) :
               /\ InBounds(left_surfaces(orig), LeftSurfaceIndex(left_count))
               /\ InBounds(right_surfaces(orig), RightSurfaceIndex(Len(orig) - left_count))

\* C21: the split index build_node recurses on lies strictly inside the range,
\* begin < split < end, and a SAH split index of 0 or >= n - 1 (n = end - begin)
\* is replaced by the midpoint begin + n / 2.
C21_SplitInsideRange ==
    aabb_out.op = "partition" =>
        LET n == aabb_out.end - aabb_out.begin
        IN  /\ aabb_out.begin < aabb_out.split
            /\ aabb_out.split < aabb_out.end
            /\ (aabb_out.sah_split = 0 \/ aabb_out.sah_split >= n - 1)
                   => aabb_out.split = aabb_out.begin + n \div 2

\* a SAH split index at the end of a range that does not start the slice,
\* replaced by the midpoint
C21_Witness ==
    /\ aabb_out.op = "partition"
    /\ aabb_out.begin > 0
    /\ aabb_out.sah_split = aabb_out.end - aabb_out.begin - 1
    /\ aabb_out.split = aabb_out.begin + (aabb_out.end - aabb_out.begin) \div 2

\* C22: right after the partition of a node split at index split on axis a,
\* every object at an index in [begin, split) has a centroid coordinate on a
\* that is <= the one of every object at an index in [split, end).
C22_PartitionOrdersSides ==
    aabb_out.op = "partition" =>
        \A i \in (aabb_out.begin + 1)..aabb_out.split :
            \A j \in (aabb_out.split + 1)..aabb_out.end :
                Coord(centroid(objects[i]), aabb_out.axis)
                    <= Coord(centroid(objects[j]), aabb_out.axis)

\* a partition that had to move objects
C22_Witness ==
    /\ aabb_out.op = "partition"
    /\ objects /= orig
    /\ \E i \in (aabb_out.begin + 1)..aabb_out.split :
           \E j \in (aabb_out.split + 1)..aabb_out.end :
               Coord(centroid(orig[i]), aabb_out.axis)
                   > Coord(centroid(orig[j]), aabb_out.axis)

LeafHoldsItsObjects(objs, node) ==
    \A i \in (node.begin + 1)..node.end :
        AABB_eq(union(node.bounds, aabb(objs[i])), node.bounds)

C26_SoundOnlyIfNoIndexMissing ==
    (aabb_out.op = "is_sound" /\ aabb_out.result = "true") =>
        \A i \in 0..(Len(aabb_out.objects) - 1) :
            \E k \in 1..Len(Leaves(tree)) :
                Leaves(tree)[k].begin <= i /\ i < Leaves(tree)[k].end

\* the greatest of a set of numbers
MaxOver(S) == CHOOSE x \in S : \A y \in S : y <= x

RECURSIVE SplitDepth(_, _, _)
\* how deep the build_node calls under a node of range [begin, end) can nest,
\* the node counted, over every split index compute_sah can answer at every
\* node; INFINITY once the nesting has gone past fuel calls. A range of less
\* than 2 objects is not split (C4, C6).
SplitDepth(begin, end, fuel) ==
    IF fuel = 0 THEN INFINITY
    ELSE IF end - begin < 2 THEN 1
    ELSE 1 + MaxOver({ Max(SplitDepth(begin, recenter(mid, begin, end), fuel - 1),
                           SplitDepth(recenter(mid, begin, end), end, fuel - 1)) :
                         mid \in 0..(end - begin) })

=============================================================================
